---- MODULE Spec2Model ----
(***************************************************************************)
(* dns-guardian (src/src/background.js): a Chrome extension that cancels   *)
(* requests to subdomains whose NS records differ from those of their root *)
(* domain.  The module models the two webRequest listeners, the tab        *)
(* listeners that maintain activeRootDomains, shouldBlockDomain with its   *)
(* two awaited DoH lookups, and the parsing done by getDnsServers.         *)
(*                                                                         *)
(* A host name is the sequence of its dot-separated labels, so that        *)
(* split('.'), slice(-2) and endsWith('.' + root) are computed and not     *)
(* looked up.  The JavaScript value null is the empty sequence, which is   *)
(* the split of no string.                                                 *)
(***************************************************************************)
EXTENDS Integers, Sequences, FiniteSets, TLC

(* ------------------------------ bounds -------------------------------- *)

\* number of web requests intercepted in one behaviour
MaxReqs == 2
\* number of those requests intercepted when the decision alone is observed
MaxEvalReqs == 1
\* number of browser tabs
MaxTabs == 1
\* chrome.tabs.query calls that may be outstanding at once
MaxQueries == 1
\* the clock advances MaxTicks times, by TickStep ms each time
MaxTicks == 1

Reqs == 1..MaxReqs

Tabs == 1..MaxTabs

(* ----------------------------- constants ------------------------------ *)

cacheTTL == 5 * 60 * 1000

\* one step of the clock: an age is 0 or at least cacheTTL
TickStep == cacheTTL

Null == << >>

\* DNS record types tested by getDnsServers
TypeNS == 2

TypeSOA == 6

(* ------------------------------ strings ------------------------------- *)

\* String.prototype.toLowerCase on one label
LowerLabel(l) ==
  CASE l = "NS1" -> "ns1"
    [] l = "T" -> "t"
    [] l = "ThirdParty" -> "thirdparty"
    [] OTHER -> l

toLowerCase(s) == [i \in 1..Len(s) |-> LowerLabel(s[i])]

\* s.endsWith(suffix) for label sequences: suffix is  "." + root, so the
\* string must be strictly longer than root and end with root's labels.
EndsWithDot(s, root) ==
  /\ Len(s) > Len(root)
  /\ SubSeq(s, Len(s) - Len(root) + 1, Len(s)) = root

\* JavaScript truthiness of a string-or-null value: null and "" are falsy
Truthy(s) == s # Null /\ s # <<"">>

(* -------------------------- DNS over HTTPS ----------------------------- *)

NS1 == <<"ns1", "reg", "com">>

NS1Upper == <<"NS1", "reg", "com">>

NS2 == <<"ns2", "other", "net">>

RootX == <<"x", "com">>

SubT == <<"t", "x", "com">>

Foreign == <<"ThirdParty", "net">>

DnsGoogle == <<"dns", "google">>

NSRecord(owner, target) == [type |-> TypeNS, name |-> owner, data |-> target]

SOARecord(zone) == [type |-> TypeSOA, name |-> zone, data |-> zone]

ARecord(owner) == [type |-> 1, name |-> owner, data |-> <<"192", "0", "2", "1">>]

\* what the fetch of https://dns.google/resolve?name=..&type=NS can produce:
\* a rejected promise, a response that is not ok, a body that is not JSON,
\* or a JSON body with Status, Answer and Authority (an absent section and
\* an empty one take the same path through getDnsServers: both yield no
\* record of type 2 and no record of type 6).
Reply(fetch, ok, body, status, answer, authority) ==
  [fetch |-> fetch, ok |-> ok, body |-> body, Status |-> status,
   Answer |-> answer, Authority |-> authority]

Json(status, answer, authority) ==
  Reply("resolved", TRUE, "json", status, answer, authority)

Responses ==
  { Reply("rejected", FALSE, "none", 0, << >>, << >>),
    Reply("resolved", FALSE, "json", 0, <<NSRecord(RootX, NS1)>>, << >>),
    Reply("resolved", TRUE, "garbage", 0, << >>, << >>),
    Json(3, <<NSRecord(RootX, NS1)>>, <<SOARecord(Foreign)>>),
    Json(0, << >>, << >>),
    Json(0, <<NSRecord(RootX, NS1Upper)>>, << >>),
    Json(0, <<ARecord(SubT), NSRecord(SubT, NS2)>>, << >>),
    Json(0, <<NSRecord(SubT, NS1)>>, <<SOARecord(Foreign)>>),
    Json(0, <<ARecord(SubT)>>, <<SOARecord(Foreign)>>),
    Json(0, << >>, <<NSRecord(SubT, NS1Upper), SOARecord(Foreign)>>),
    Json(0, << >>, <<NSRecord(SubT, NS2), NSRecord(SubT, NS1), SOARecord(SubT)>>),
    Json(0, << >>, <<SOARecord(RootX)>>),
    Json(0, << >>, <<SOARecord(SubT), SOARecord(Foreign)>>),
    Json(0, <<NSRecord(SubT, NS1), NSRecord(SubT, Null)>>, <<SOARecord(Foreign)>>),
    Json(0, << >>, <<NSRecord(SubT, NS1), SOARecord(Null)>>),
    Json(0, <<NSRecord(SubT, NS1)>>, <<NSRecord(SubT, Null), SOARecord(Null)>>) }

EmptyResult == [servers |-> << >>, authority |-> Null]

\* the map without the filter on the record type
NsDataNoFilter(records) ==
  [i \in 1..Len(records) |-> toLowerCase(records[i].data)]

\* records.filter(record => record.type === 2).map(record => record.data.toLowerCase())
NsData(records) ==
  LET ns == SelectSeq(records, LAMBDA rec : rec.type = TypeNS)
  IN  [i \in 1..Len(ns) |-> toLowerCase(ns[i].data)]

\* the last SOA record instead of the first
FindSoaLast(records) ==
  LET soa == SelectSeq(records, LAMBDA rec : rec.type = TypeSOA)
  IN  IF Len(soa) > 0 THEN toLowerCase(soa[Len(soa)].name) ELSE Null

\* records.find(record => record.type === 6): the first SOA record, if any
FindSoa(records) ==
  LET soa == SelectSeq(records, LAMBDA rec : rec.type = TypeSOA)
  IN  IF Len(soa) > 0 THEN toLowerCase(soa[1].name) ELSE Null

\* record.data.toLowerCase() (lines 31, 47) and soaRecord.name.toLowerCase()
\* (line 42) throw a TypeError on a record without that field, which is Null
NoData(records) ==
  \E i \in 1..Len(records) : records[i].type = TypeNS /\ records[i].data = Null

NoSoaName(records) ==
  LET soa == SelectSeq(records, LAMBDA rec : rec.type = TypeSOA)
  IN  Len(soa) > 0 /\ soa[1].name = Null

\* getDnsServers without the Status test of lines 22-25
getDnsServersIgnoresStatus(resp) ==
  IF resp.fetch = "rejected" \/ ~resp.ok \/ resp.body # "json"
  THEN EmptyResult
  ELSE IF NoData(resp.Answer) THEN EmptyResult
  ELSE IF Len(NsData(resp.Answer)) > 0
  THEN [servers |-> NsData(resp.Answer), authority |-> Null]
  ELSE IF NoSoaName(resp.Authority) \/ NoData(resp.Authority)
  THEN EmptyResult
  ELSE LET authority == FindSoa(resp.Authority)
           servers == NsData(resp.Authority)
       IN  IF Len(servers) > 0
           THEN [servers |-> servers, authority |-> authority]
           ELSE IF Truthy(authority)
           THEN [servers |-> << >>, authority |-> authority]
           ELSE EmptyResult

getDnsServers(resp) ==
  IF resp.fetch = "rejected" \/ ~resp.ok \/ resp.body # "json"
  THEN EmptyResult                                   \* throw, caught at line 65
  ELSE IF resp.Status # 0 THEN EmptyResult
  ELSE IF NoData(resp.Answer) THEN EmptyResult       \* TypeError, caught
  ELSE IF Len(NsData(resp.Answer)) > 0
  THEN [servers |-> NsData(resp.Answer), authority |-> Null]
  ELSE IF NoSoaName(resp.Authority) \/ NoData(resp.Authority)
  THEN EmptyResult                                   \* TypeError, caught
  ELSE LET authority == FindSoa(resp.Authority)
           servers == NsData(resp.Authority)
       IN  IF Len(servers) > 0
           THEN [servers |-> servers, authority |-> authority]
           ELSE IF Truthy(authority)
           THEN [servers |-> << >>, authority |-> authority]
           ELSE EmptyResult

(* --------------------------- domain helpers --------------------------- *)

getRootDomain(domain) ==
  IF Len(domain) <= 2 THEN domain
  ELSE SubSeq(domain, Len(domain) - 1, Len(domain))

\* a URL is the outcome of new URL(url): it parses or not, and its host is
\* written in some letter case; URL.hostname is the host in lower case
Url(valid, host) == [valid |-> valid, host |-> host]

UrlT == Url(TRUE, <<"T", "x", "com">>)

UrlRoot == Url(TRUE, RootX)

UrlOther == Url(TRUE, <<"y", "org">>)

UrlDns == Url(TRUE, DnsGoogle)

UrlBad == Url(FALSE, <<"not a url">>)

RequestUrls == {UrlT, UrlRoot, UrlDns, UrlBad}

TabUrls == {UrlRoot, UrlOther}

extractDomain(url) == IF url.valid THEN toLowerCase(url.host) ELSE Null

\* every name a lookup can be issued for
Names == {extractDomain(u) : u \in RequestUrls \cup TabUrls} \ {Null}

(* ------------------------- the blocking decision ---------------------- *)

\* the authority test without the endsWith clause of line 117
ForeignAuthorityNoSubzone(authority, rootDomain) ==
  /\ Truthy(authority)
  /\ authority # rootDomain

\* lines 115-117: an authority that is neither the root nor a zone below it
ForeignAuthority(authority, rootDomain) ==
  /\ Truthy(authority)
  /\ authority # rootDomain
  /\ ~EndsWithDot(authority, rootDomain)

\* Array.prototype.every in the place of some
hasCommonNameserverEvery(domainServers, rootServers) ==
  \A i \in 1..Len(domainServers) :
    \E j \in 1..Len(rootServers) : domainServers[i] = rootServers[j]

\* lines 124-130: domainResult.servers.some(ns => rootResult.servers.includes(ns))
hasCommonNameserver(domainServers, rootServers) ==
  \E i \in 1..Len(domainServers) :
    \E j \in 1..Len(rootServers) : domainServers[i] = rootServers[j]

\* the authority test of line 115 placed before the root test of line 108
DecideAuthorityFirst(domain, domainResult, rootResult) ==
  LET rootDomain == getRootDomain(domain) IN
  IF ForeignAuthority(domainResult.authority, rootDomain)
  THEN [shouldBlock |-> TRUE, via |-> "authority", cached |-> FALSE]
  ELSE IF Len(rootResult.servers) = 0
  THEN [shouldBlock |-> FALSE, via |-> "noRootRecords", cached |-> FALSE]
  ELSE IF Len(domainResult.servers) > 0
  THEN [shouldBlock |-> ~hasCommonNameserver(domainResult.servers, rootResult.servers),
        via |-> "compare", cached |-> FALSE]
  ELSE [shouldBlock |-> TRUE, via |-> "noRecords", cached |-> TRUE]

\* the last branch allowing: a subdomain without records is let through
DecideAllowsNoRecords(domain, domainResult, rootResult) ==
  LET rootDomain == getRootDomain(domain) IN
  IF Len(rootResult.servers) = 0
  THEN [shouldBlock |-> FALSE, via |-> "noRootRecords", cached |-> FALSE]
  ELSE IF ForeignAuthority(domainResult.authority, rootDomain)
  THEN [shouldBlock |-> TRUE, via |-> "authority", cached |-> FALSE]
  ELSE IF Len(domainResult.servers) > 0
  THEN [shouldBlock |-> ~hasCommonNameserver(domainResult.servers, rootResult.servers),
        via |-> "compare", cached |-> FALSE]
  ELSE [shouldBlock |-> FALSE, via |-> "noRecords", cached |-> TRUE]

\* the nameserver comparison writing its verdict to dnsCache as well
DecideCachesComparison(domain, domainResult, rootResult) ==
  LET rootDomain == getRootDomain(domain) IN
  IF Len(rootResult.servers) = 0
  THEN [shouldBlock |-> FALSE, via |-> "noRootRecords", cached |-> FALSE]
  ELSE IF ForeignAuthority(domainResult.authority, rootDomain)
  THEN [shouldBlock |-> TRUE, via |-> "authority", cached |-> FALSE]
  ELSE IF Len(domainResult.servers) > 0
  THEN [shouldBlock |-> ~hasCommonNameserver(domainResult.servers, rootResult.servers),
        via |-> "compare", cached |-> TRUE]
  ELSE [shouldBlock |-> TRUE, via |-> "noRecords", cached |-> TRUE]

\* shouldBlockDomain from line 107 on, once both lookups have returned:
\* the verdict, the branch that returned it, and whether that branch wrote
\* the verdict to dnsCache
Decide(domain, domainResult, rootResult) ==
  LET rootDomain == getRootDomain(domain) IN
  IF Len(rootResult.servers) = 0
  THEN [shouldBlock |-> FALSE, via |-> "noRootRecords", cached |-> FALSE]
  ELSE IF ForeignAuthority(domainResult.authority, rootDomain)
  THEN [shouldBlock |-> TRUE, via |-> "authority", cached |-> FALSE]
  ELSE IF Len(domainResult.servers) > 0
  THEN [shouldBlock |-> ~hasCommonNameserver(domainResult.servers, rootResult.servers),
        via |-> "compare", cached |-> FALSE]
  ELSE [shouldBlock |-> TRUE, via |-> "noRecords", cached |-> TRUE]

(* ------------------------------- state -------------------------------- *)

VARIABLES
  now,                \* Date.now()
  dnsCache,           \* Map: domain -> {shouldBlock, timestamp}
  activeRootDomains,  \* Set of root domains of the open tabs
  blockingDecisions,  \* Map: domain -> boolean
  tabs,               \* the browser's open tabs: tabId -> url
  tabQueries,         \* chrome.tabs.query calls whose callback has not run
  req,                \* the intercepted requests and where each stands
  fetched,            \* per name: fetch() calls, last call, last reply
  decidedAt,          \* per domain, when blockingDecisions was last set
  evaluated,          \* the last run of shouldBlockDomain that did both lookups
  lookup              \* the last reply getDnsServers parsed, and its result

vars == <<now, dnsCache, activeRootDomains, blockingDecisions, tabs,
          tabQueries, req, fetched, decidedAt, evaluated, lookup>>

\* Map.set(k, v) on a map held as a function on its keys
MapSet(m, k, v) == [x \in DOMAIN m \cup {k} |-> IF x = k THEN v ELSE m[x]]

NoUrl == Url(FALSE, Null)

\* domainResult is the local of shouldBlockDomain that lives across line 100
NewRequest ==
  [pc |-> "new", url |-> NoUrl, domainResult |-> EmptyResult, via |-> "none",
   cancel |-> FALSE, headers |-> "none"]

NoTime == 0 - 1

NoFetch == [count |-> 0, last |-> NoTime, returned |-> NoTime]

NoEvaluation ==
  [domain |-> Null, domainResult |-> EmptyResult, rootResult |-> EmptyResult,
   shouldBlock |-> FALSE, via |-> "none"]

NoLookup ==
  [done |-> FALSE, resp |-> Reply("rejected", FALSE, "none", 0, << >>, << >>),
   result |-> EmptyResult]

Query(kind) == [kind |-> kind, answered |-> FALSE, result |-> << >>]

Init ==
  /\ now = 0
  /\ dnsCache = << >>
  /\ activeRootDomains = {}
  /\ blockingDecisions = << >>
  /\ \E open \in SUBSET Tabs : tabs \in [open -> TabUrls]
  /\ tabQueries = <<Query("init")>>
  /\ req = [r \in Reqs |-> NewRequest]
  /\ fetched = [n \in Names |-> NoFetch]
  /\ decidedAt = << >>
  /\ evaluated = NoEvaluation
  /\ lookup = NoLookup

(* ---------------------------- tab listeners ---------------------------- *)

\* the root domains of the tabs of a chrome.tabs.query result
RootsOf(result) ==
  {getRootDomain(extractDomain(result[t])) :
     t \in {x \in DOMAIN result : Truthy(extractDomain(result[x]))}}

\* chrome.tabs.onUpdated with changeInfo.url set
OnUpdated(tabId, url) ==
  /\ tabs' = MapSet(tabs, tabId, url)
  /\ tabs' # tabs
  /\ activeRootDomains' =
       IF Truthy(extractDomain(url))
       THEN activeRootDomains \cup {getRootDomain(extractDomain(url))}
       ELSE activeRootDomains
  /\ UNCHANGED <<now, dnsCache, blockingDecisions, tabQueries, req, fetched,
                 decidedAt, evaluated, lookup>>

\* chrome.tabs.onRemoved: the listener only calls chrome.tabs.query
OnRemoved(tabId) ==
  /\ tabId \in DOMAIN tabs
  /\ Len(tabQueries) < MaxQueries
  /\ tabs' = [t \in DOMAIN tabs \ {tabId} |-> tabs[t]]
  /\ tabQueries' = Append(tabQueries, Query("removed"))
  /\ UNCHANGED <<now, dnsCache, activeRootDomains, blockingDecisions, req,
                 fetched, decidedAt, evaluated, lookup>>

\* the browser answers the oldest unanswered query with the tabs open then
TabsQueryAnswer ==
  /\ \E i \in 1..Len(tabQueries) :
       /\ ~tabQueries[i].answered
       /\ \A j \in 1..(i - 1) : tabQueries[j].answered
       /\ tabQueries' =
            [tabQueries EXCEPT ![i] = [@ EXCEPT !.answered = TRUE, !.result = tabs]]
  /\ UNCHANGED <<now, dnsCache, activeRootDomains, blockingDecisions, tabs,
                 req, fetched, decidedAt, evaluated, lookup>>

\* the callback of chrome.tabs.query: the startup query adds, the query of
\* onRemoved clears and adds
QueryCallback ==
  /\ Len(tabQueries) > 0
  /\ tabQueries[1].answered
  /\ activeRootDomains' =
       IF tabQueries[1].kind = "init"
       THEN activeRootDomains \cup RootsOf(tabQueries[1].result)
       ELSE RootsOf(tabQueries[1].result)
  /\ tabQueries' = Tail(tabQueries)
  /\ UNCHANGED <<now, dnsCache, blockingDecisions, tabs, req, fetched,
                 decidedAt, evaluated, lookup>>

(* -------------------------- request listeners -------------------------- *)

\* lines 87-88: a dnsCache entry younger than cacheTTL
CacheHit(domain) ==
  /\ domain \in DOMAIN dnsCache
  /\ now - dnsCache[domain].timestamp < cacheTTL

\* shouldBlockDomain without the test of lines 93-97
shouldBlockStartNoRootTest(domain) ==
  IF CacheHit(domain)
  THEN [returns |-> TRUE, shouldBlock |-> dnsCache[domain].shouldBlock,
        via |-> "dnsCache"]
  ELSE [returns |-> FALSE, shouldBlock |-> FALSE, via |-> "await"]

\* shouldBlockDomain up to its first await (lines 86-97): it returns the
\* cached verdict, or false for a root domain, or goes on to the lookups
shouldBlockStart(domain) ==
  IF CacheHit(domain)
  THEN [returns |-> TRUE, shouldBlock |-> dnsCache[domain].shouldBlock,
        via |-> "dnsCache"]
  ELSE IF domain = getRootDomain(domain)
  THEN [returns |-> TRUE, shouldBlock |-> FALSE, via |-> "rootDomain"]
  ELSE [returns |-> FALSE, shouldBlock |-> FALSE, via |-> "await"]

\* the verdict stored only when it is block
StoreDecisionIfBlocked(decisions, domain, shouldBlock) ==
  IF shouldBlock THEN MapSet(decisions, domain, shouldBlock) ELSE decisions

\* line 258: blockingDecisions.set(domain, shouldBlock)
StoreDecision(decisions, domain, shouldBlock) ==
  MapSet(decisions, domain, shouldBlock)

\* the headers listener cancelling when extractDomain returns null
BlockedAtHeadersFailClosed(domain) ==
  \/ ~Truthy(domain)
  \/ /\ domain \in DOMAIN blockingDecisions
     /\ blockingDecisions[domain]

\* lines 281-288: the headers listener cancels on a stored verdict true
BlockedAtHeaders(domain) ==
  /\ Truthy(domain)
  /\ domain \in DOMAIN blockingDecisions
  /\ blockingDecisions[domain]

\* the fetch() of getDnsServers(name) is issued
Fetch(log, name) ==
  [log EXCEPT ![name] = [@ EXCEPT !.count = @ + 1, !.last = now]]

\* getDnsServers(name) returns
Returned(log, name) == [log EXCEPT ![name] = [@ EXCEPT !.returned = now]]

\* the listener's answer {cancel: c}, given directly or through resolve()
Answered(r, url, c, via) ==
  [req[r] EXCEPT !.pc = IF c THEN "done" ELSE "answered",
                 !.url = url, !.cancel = c, !.via = via]

\* lines 215-240: the requests the listener lets through without a verdict
Skipped(domain) ==
  IF ~Truthy(domain) THEN "noDomain"
  ELSE IF domain = DnsGoogle THEN "dnsLookup"
  ELSE IF getRootDomain(domain) \notin activeRootDomains THEN "notActive"
  ELSE IF domain = getRootDomain(domain) THEN "isRoot"
  ELSE "no"

\* chrome.webRequest.onBeforeRequest, up to its return or the first await of
\* shouldBlockDomain: requests are numbered in the order they are intercepted
OnBeforeRequest(r, url) ==
  /\ req[r].pc = "new"
  /\ \A q \in Reqs : q < r => req[q].pc # "new"
  /\ LET domain == extractDomain(url) IN
     IF Skipped(domain) # "no"
     THEN /\ req' = [req EXCEPT ![r] = Answered(r, url, FALSE, Skipped(domain))]
          /\ UNCHANGED <<blockingDecisions, decidedAt, fetched>>
     ELSE IF domain \in DOMAIN blockingDecisions
     THEN /\ req' = [req EXCEPT ![r] =
                       Answered(r, url, blockingDecisions[domain], "decision")]
          /\ UNCHANGED <<blockingDecisions, decidedAt, fetched>>
     ELSE IF shouldBlockStart(domain).returns
     THEN /\ req' = [req EXCEPT ![r] =
                       Answered(r, url, shouldBlockStart(domain).shouldBlock,
                                shouldBlockStart(domain).via)]
          /\ blockingDecisions' =
               StoreDecision(blockingDecisions, domain,
                             shouldBlockStart(domain).shouldBlock)
          /\ decidedAt' = MapSet(decidedAt, domain, now)
          /\ UNCHANGED fetched
     ELSE /\ req' = [req EXCEPT ![r] = [@ EXCEPT !.pc = "awaitDomain", !.url = url]]
          /\ fetched' = Fetch(fetched, domain)
          /\ UNCHANGED <<blockingDecisions, decidedAt>>
  /\ UNCHANGED <<now, dnsCache, activeRootDomains, tabs, tabQueries, evaluated,
                 lookup>>

\* line 99 returns: getDnsServers(domain) has parsed the reply, and line 100
\* issues the lookup of the root domain
DomainReturns(r, resp) ==
  /\ req[r].pc = "awaitDomain"
  /\ req' = [req EXCEPT ![r] = [@ EXCEPT !.pc = "awaitRoot",
                                          !.domainResult = getDnsServers(resp)]]
  /\ fetched' = Fetch(Returned(fetched, extractDomain(req[r].url)),
                      getRootDomain(extractDomain(req[r].url)))
  /\ UNCHANGED <<now, dnsCache, activeRootDomains, blockingDecisions, tabs,
                 tabQueries, decidedAt>>

DomainReply(r, resp) == DomainReturns(r, resp) /\ UNCHANGED <<evaluated, lookup>>

\* line 100 returns: the rest of shouldBlockDomain, then lines 253-263
RootReturns(r, resp) ==
  /\ req[r].pc = "awaitRoot"
  /\ LET domain == extractDomain(req[r].url)
         rootResult == getDnsServers(resp)
         d == Decide(domain, req[r].domainResult, rootResult)
     IN  /\ dnsCache' =
              IF d.cached
              THEN MapSet(dnsCache, domain,
                          [shouldBlock |-> d.shouldBlock, timestamp |-> now])
              ELSE dnsCache
         /\ blockingDecisions' = StoreDecision(blockingDecisions, domain, d.shouldBlock)
         /\ decidedAt' = MapSet(decidedAt, domain, now)
         /\ req' = [req EXCEPT ![r] =
                      [Answered(r, req[r].url, d.shouldBlock, d.via)
                         EXCEPT !.domainResult = EmptyResult]]
         /\ fetched' = Returned(fetched, getRootDomain(domain))
  /\ UNCHANGED <<now, activeRootDomains, tabs, tabQueries>>

RootReply(r, resp) == RootReturns(r, resp) /\ UNCHANGED <<evaluated, lookup>>

\* the same step, observed: the arguments and the result of the run of
\* shouldBlockDomain that ends here are kept in evaluated
EvaluatedRootReply(r, resp) ==
  /\ RootReturns(r, resp)
  /\ UNCHANGED lookup
  /\ LET domain == extractDomain(req[r].url)
         rootResult == getDnsServers(resp)
         d == Decide(domain, req[r].domainResult, rootResult)
     IN  evaluated' =
           [domain |-> domain, domainResult |-> req[r].domainResult,
            rootResult |-> rootResult, shouldBlock |-> d.shouldBlock,
            via |-> d.via]

\* chrome.webRequest.onBeforeSendHeaders, for a request that was let through
OnBeforeSendHeaders(r) ==
  /\ req[r].pc = "answered"
  /\ req' = [req EXCEPT ![r] =
              [@ EXCEPT !.pc = "done",
                        !.headers = IF BlockedAtHeaders(extractDomain(req[r].url))
                                    THEN "cancel" ELSE "pass"]]
  /\ UNCHANGED <<now, dnsCache, activeRootDomains, blockingDecisions, tabs,
                 tabQueries, fetched, decidedAt, evaluated, lookup>>

\* time passes
Tick ==
  /\ now + TickStep <= MaxTicks * TickStep
  /\ now' = now + TickStep
  /\ UNCHANGED <<dnsCache, activeRootDomains, blockingDecisions, tabs,
                 tabQueries, req, fetched, decidedAt, evaluated, lookup>>

Next ==
  \/ \E t \in Tabs, u \in TabUrls : OnUpdated(t, u)
  \/ \E t \in Tabs : OnRemoved(t)
  \/ TabsQueryAnswer
  \/ QueryCallback
  \/ \E r \in Reqs, u \in RequestUrls : OnBeforeRequest(r, u)
  \/ \E r \in Reqs, resp \in Responses : DomainReply(r, resp)
  \/ \E r \in Reqs, resp \in Responses : RootReply(r, resp)
  \/ \E r \in Reqs : OnBeforeSendHeaders(r)
  \/ Tick

Spec == Init /\ [][Next]_vars

\* The decision alone: a tab on x.com is open and the startup query has been
\* handled, the tabs do not change, MaxEvalReqs requests are intercepted and
\* every run of shouldBlockDomain is observed with the two lookup results it
\* compared.
InitEval ==
  /\ now = 0
  /\ dnsCache = << >>
  /\ activeRootDomains = {RootX}
  /\ blockingDecisions = << >>
  /\ tabs = [t \in Tabs |-> UrlRoot]
  /\ tabQueries = << >>
  /\ req = [r \in Reqs |-> NewRequest]
  /\ fetched = [n \in Names |-> NoFetch]
  /\ decidedAt = << >>
  /\ evaluated = NoEvaluation
  /\ lookup = NoLookup

EvalReqs == {r \in Reqs : r <= MaxEvalReqs}

NextEval ==
  \/ \E r \in EvalReqs, u \in RequestUrls : OnBeforeRequest(r, u)
  \/ \E r \in EvalReqs, resp \in Responses : DomainReply(r, resp)
  \/ \E r \in EvalReqs, resp \in Responses : EvaluatedRootReply(r, resp)
  \/ \E r \in EvalReqs : OnBeforeSendHeaders(r)
  \/ Tick

SpecEval == InitEval /\ [][NextEval]_vars

\* The lookups alone: as SpecEval, and every return of getDnsServers is
\* observed with the reply it parsed.
Parsed(resp) == [done |-> TRUE, resp |-> resp, result |-> getDnsServers(resp)]

ParsedDomainReply(r, resp) ==
  /\ DomainReturns(r, resp)
  /\ lookup' = Parsed(resp)
  /\ UNCHANGED evaluated

ParsedRootReply(r, resp) ==
  /\ RootReturns(r, resp)
  /\ lookup' = Parsed(resp)
  /\ UNCHANGED evaluated

NextLookup ==
  \/ \E r \in EvalReqs, u \in RequestUrls : OnBeforeRequest(r, u)
  \/ \E r \in EvalReqs, resp \in Responses : ParsedDomainReply(r, resp)
  \/ \E r \in EvalReqs, resp \in Responses : ParsedRootReply(r, resp)
  \/ \E r \in EvalReqs : OnBeforeSendHeaders(r)
  \/ Tick

SpecLookup == InitEval /\ [][NextLookup]_vars

\* The same program with the scheduling the browser guarantees: a request that
\* was let through goes on to onBeforeSendHeaders, the continuation after
\* line 100 runs once the root lookup is answered, and time passes.  The
\* fetch() of line 14 has no timeout and no AbortController, so nothing in
\* the program makes the await of line 99 return: the reply to the
\* subdomain's lookup is left to the DoH endpoint.
SpecLive ==
  /\ InitEval
  /\ [][NextEval]_vars
  /\ WF_vars(\E r \in EvalReqs : OnBeforeSendHeaders(r))
  /\ WF_vars(\E r \in EvalReqs, resp \in Responses : EvaluatedRootReply(r, resp))
  /\ WF_vars(Tick)

(* ------------------------------ properties ---------------------------- *)

DomainOf(r) == extractDomain(req[r].url)

\* request r is inside shouldBlockDomain, waiting for a DNS reply
Evaluating(r) == req[r].pc \in {"awaitDomain", "awaitRoot"}

\* request r was answered by a run of shouldBlockDomain that did both lookups
EvaluatedVia == {"noRootRecords", "authority", "compare", "noRecords"}

\* this step is the onBeforeRequest listener handling request r
Intercepts(r) == req[r].pc = "new" /\ req'[r].pc # "new"

\* this step is the onBeforeSendHeaders listener handling request r
SendsHeaders(r) == req[r].pc = "answered" /\ req'[r].pc = "done"

\* the scope filter lets the request of this domain through
InScope(domain) ==
  /\ Truthy(domain)
  /\ domain # DnsGoogle
  /\ getRootDomain(domain) \in activeRootDomains
  /\ domain # getRootDomain(domain)

\* C1: at most one evaluation per hostname is in progress at any time: a
\* request intercepted while an evaluation of its hostname awaits its DNS
\* replies starts no second evaluation.
C1_OneEvaluationPerHostname ==
  \A r1, r2 \in Reqs :
    (r1 # r2 /\ Evaluating(r1) /\ Evaluating(r2)) => DomainOf(r1) # DomainOf(r2)

\* C2: no two requests for the same hostname that were answered by an
\* evaluation are resolved with different cancel values.
C2_SameVerdictForConcurrentRequests ==
  \A r1, r2 \in Reqs :
    (/\ req[r1].via \in EvaluatedVia
     /\ req[r2].via \in EvaluatedVia
     /\ DomainOf(r1) = DomainOf(r2)) => req[r1].cancel = req[r2].cancel

\* C3: once a verdict for a hostname is stored in blockingDecisions it never
\* changes, and every later in-scope request for that hostname is answered
\* with it at once, without a DNS lookup, whatever the time.
C3_VerdictsPersist ==
  [][/\ \A h \in DOMAIN blockingDecisions :
          /\ h \in DOMAIN blockingDecisions'
          /\ blockingDecisions'[h] = blockingDecisions[h]
     /\ \A r \in Reqs :
          (/\ Intercepts(r)
           /\ InScope(DomainOf(r)')
           /\ DomainOf(r)' \in DOMAIN blockingDecisions)
          => /\ req'[r].pc \in {"answered", "done"}
             /\ req'[r].cancel = blockingDecisions[DomainOf(r)']
             /\ fetched' = fetched]_vars

\* C4: a network call for a name is issued only if no lookup of that name
\* has returned less than 5 minutes before (the answer cache would hold its
\* result); two lookups of one name less than 5 minutes apart make one call.
C4_OneNetworkCallPerTTL ==
  [][\A n \in Names :
       fetched'[n].count > fetched[n].count
       => \/ fetched[n].returned = NoTime
          \/ now - fetched[n].returned >= cacheTTL]_vars

\* C5: a verdict is reused for requests to its hostname that arrive less
\* than 5 minutes after it was computed, and a request that arrives 5
\* minutes or more after it is decided by fresh DNS lookups.
C5_VerdictExpiresAfterTTL ==
  [][\A r \in Reqs :
       (/\ Intercepts(r)
        /\ InScope(DomainOf(r)')
        /\ DomainOf(r)' \in DOMAIN blockingDecisions)
       => IF now - decidedAt[DomainOf(r)'] < cacheTTL
          THEN /\ req'[r].pc \in {"answered", "done"}
               /\ req'[r].cancel = blockingDecisions[DomainOf(r)']
          ELSE /\ req'[r].pc = "awaitDomain"
               /\ fetched'[DomainOf(r)'].count > fetched[DomainOf(r)'].count]_vars

\* C7: a request whose root domain is not in activeRootDomains when it is
\* handled, or whose hostname is its own root domain, is cancelled by neither
\* listener and triggers no DNS lookup.
C7_ScopeFilter ==
  [][\A r \in Reqs :
       LET domain == DomainOf(r)'
           outOfScope ==
             /\ Truthy(domain)
             /\ \/ getRootDomain(domain) \notin activeRootDomains
                \/ domain = getRootDomain(domain)
       IN  /\ (Intercepts(r) /\ outOfScope)
              => (~req'[r].cancel /\ req'[r].pc = "answered" /\ fetched' = fetched)
           /\ (SendsHeaders(r) /\ outOfScope) => req'[r].headers # "cancel"]_vars

(* The properties of the decision are stated of evaluated, under SpecEval. *)

Range(seq) == {seq[i] : i \in 1..Len(seq)}

\* a run of shouldBlockDomain on a hostname that is not its own root domain
\* has returned after both lookups
HasEvaluated ==
  /\ evaluated.via # "none"
  /\ evaluated.domain # getRootDomain(evaluated.domain)

SharesNameserver ==
  Range(evaluated.domainResult.servers) \cap Range(evaluated.rootResult.servers) # {}

\* the subdomain's authority is the root domain or a zone below it
AuthorityInZone ==
  LET authority == evaluated.domainResult.authority
      rootDomain == getRootDomain(evaluated.domain)
  IN  \/ authority = rootDomain
      \/ /\ Len(authority) > Len(rootDomain)
         /\ \A i \in 1..Len(rootDomain) :
              authority[Len(authority) - Len(rootDomain) + i] = rootDomain[i]

\* the subdomain's lookup carries no authority (null or the empty string)
AuthorityAbsent ==
  evaluated.domainResult.authority \in {Null, <<"">>}

\* C6 as claimed: if the subdomain's and the root's server sets share a
\* nameserver, the verdict is allow, whatever the subdomain's authority.
C6_SharedNameserverAllows ==
  (HasEvaluated /\ SharesNameserver) => ~evaluated.shouldBlock

\* C6 as amended: if the two server sets share a nameserver and the
\* subdomain's authority is absent, equal to the root domain or a zone below
\* it, the verdict is allow.
C6_SharedNameserverAllowsInZone ==
  (HasEvaluated /\ SharesNameserver /\ (AuthorityAbsent \/ AuthorityInZone))
  => ~evaluated.shouldBlock

\* C6: an allowed subdomain that shares one of its two nameservers with the
\* root and carries an authority below the root
C6_Witness ==
  /\ HasEvaluated
  /\ SharesNameserver
  /\ Range(evaluated.domainResult.servers) \ Range(evaluated.rootResult.servers) # {}
  /\ AuthorityInZone
  /\ ~evaluated.shouldBlock

\* C8: if the root lookup has no servers the verdict is allow, whatever the
\* subdomain's servers and authority.
C8_NoRootRecordsAllows ==
  (HasEvaluated /\ evaluated.rootResult.servers = << >>) => ~evaluated.shouldBlock

\* C8: allowed without root servers although the subdomain has servers and a
\* foreign authority
C8_Witness ==
  /\ HasEvaluated
  /\ evaluated.rootResult.servers = << >>
  /\ evaluated.domainResult.servers # << >>
  /\ ~AuthorityAbsent /\ ~AuthorityInZone
  /\ ~evaluated.shouldBlock

\* C9: with root servers, an authority that neither equals the root domain
\* nor ends with "." + root domain gives block; an authority that equals the
\* root domain or lies below it is not what returns the verdict, which is
\* then that of the nameserver comparison or of the missing records.
C9_ForeignAuthorityBlocks ==
  (HasEvaluated /\ evaluated.rootResult.servers # << >> /\ ~AuthorityAbsent)
  => IF AuthorityInZone
     THEN /\ evaluated.via \in {"compare", "noRecords"}
          /\ evaluated.shouldBlock =
               (evaluated.domainResult.servers = << >> \/ ~SharesNameserver)
     ELSE evaluated.shouldBlock /\ evaluated.via = "authority"

\* C9: a subdomain whose authority is a zone below the root, allowed by the
\* nameserver comparison
C9_Witness ==
  /\ HasEvaluated
  /\ evaluated.rootResult.servers # << >>
  /\ AuthorityInZone
  /\ evaluated.domainResult.authority # getRootDomain(evaluated.domain)
  /\ evaluated.via = "compare"
  /\ ~evaluated.shouldBlock

\* C10: no servers and no authority for the subdomain, servers for the root:
\* the verdict is block.
C10_NoRecordsBlocks ==
  (/\ HasEvaluated
   /\ evaluated.domainResult.servers = << >>
   /\ evaluated.domainResult.authority = Null
   /\ evaluated.rootResult.servers # << >>) => evaluated.shouldBlock

\* C10: blocked for want of records of the subdomain
C10_Witness ==
  /\ HasEvaluated
  /\ evaluated.domainResult = EmptyResult
  /\ evaluated.rootResult.servers # << >>
  /\ evaluated.shouldBlock
  /\ evaluated.domain \in DOMAIN dnsCache

\* C11: for every hostname that is its own root domain shouldBlockDomain
\* returns false before its first await (no DNS lookup), in every reachable
\* state of dnsCache, and a request for such a hostname is never cancelled.
C11_RootDomainAllowed ==
  /\ \A h \in Names :
       h = getRootDomain(h) =>
         /\ shouldBlockStart(h).returns
         /\ ~shouldBlockStart(h).shouldBlock
  /\ \A r \in Reqs :
       (req[r].pc # "new" /\ Truthy(DomainOf(r))
          /\ DomainOf(r) = getRootDomain(DomainOf(r))) =>
         /\ ~Evaluating(r)
         /\ ~req[r].cancel

\* dnsCache was populated by an earlier evaluation, then a request for the
\* root domain was let through
C11_Witness ==
  /\ DOMAIN dnsCache # {}
  /\ \E r \in Reqs : req[r].via = "isRoot" /\ DomainOf(r) = RootX

\* C12: every request the gate evaluates eventually gets its verdict, even
\* when the DoH endpoint never answers a lookup.
C12_EveryRequestAnswered ==
  \A r \in Reqs : Evaluating(r) ~> (req[r].pc \in {"answered", "done"})

\* a record of the sequence has type t and no value in its field f
Lacks(records, t, f) ==
  \E i \in 1..Len(records) : records[i].type = t /\ records[i][f] = Null

\* the reply has no NS record in its Answer section
NoAnswerNS(resp) ==
  \A i \in 1..Len(resp.Answer) : resp.Answer[i].type # TypeNS

\* the reply is a transport error, a non-2xx status, a body that is not JSON,
\* a DNS Status other than 0, or holds a record without the field read from it
LookupFails(resp) ==
  \/ resp.fetch = "rejected"
  \/ ~resp.ok
  \/ resp.body # "json"
  \/ resp.Status # 0
  \/ Lacks(resp.Answer, TypeNS, "data")
  \/ /\ NoAnswerNS(resp)
     /\ \/ Lacks(resp.Authority, TypeNS, "data")
        \/ Lacks(resp.Authority, TypeSOA, "name")

\* C13: getDnsServers returns exactly the empty result on a transport error,
\* a non-2xx status, a non-zero DNS Status or a malformed body: it returns
\* (no exception) and nothing of the reply is in the result.
C13_FailedLookupIsEmpty ==
  (lookup.done /\ LookupFails(lookup.resp)) => lookup.result = EmptyResult

\* C13: a reply with DNS Status 3 that carries an NS record and an SOA record
\* was parsed to the empty result
C13_Witness ==
  /\ lookup.done
  /\ lookup.resp.fetch = "resolved" /\ lookup.resp.ok
  /\ lookup.resp.body = "json"
  /\ lookup.resp.Status # 0
  /\ lookup.resp.Answer # << >>
  /\ lookup.resp.Authority # << >>
  /\ lookup.result = EmptyResult

\* C14: a request whose URL has no hostname is let through by both
\* listeners, and neither of them issues a lookup or changes dnsCache,
\* blockingDecisions or activeRootDomains.
C14_NoHostnameAllowed ==
  [][\A r \in Reqs :
       /\ (Intercepts(r) /\ ~Truthy(extractDomain(req'[r].url))) =>
            /\ req'[r].pc = "answered"
            /\ ~req'[r].cancel
            /\ UNCHANGED <<fetched, dnsCache, blockingDecisions, activeRootDomains>>
       /\ (SendsHeaders(r) /\ ~Truthy(DomainOf(r))) =>
            /\ req'[r].headers = "pass"
            /\ UNCHANGED <<fetched, dnsCache, blockingDecisions, activeRootDomains>>
    ]_vars

\* C14: a request for a URL without hostname went through both listeners
\* while a verdict of block was stored for another request
C14_Witness ==
  /\ \E r \in Reqs :
       /\ req[r].url = UrlBad
       /\ req[r].pc = "done"
       /\ req[r].via = "noDomain"
       /\ req[r].headers = "pass"
  /\ \E h \in DOMAIN blockingDecisions : blockingDecisions[h]

\* the positions of the SOA records of a section
SoaAt(records) == {i \in 1..Len(records) : records[i].type = TypeSOA}

\* the zone name of the first SOA record of a section, in lower case
FirstSoaZone(records) ==
  LET first == CHOOSE i \in SoaAt(records) : \A j \in SoaAt(records) : i <= j
  IN  [k \in 1..Len(records[first].name) |-> LowerLabel(records[first].name[k])]

\* C15: whenever a successful reply has an SOA record in its Authority
\* section, the result's authority is that record's lowercased zone name,
\* also when the Answer section holds NS records.
C15_SoaNeverMasked ==
  (/\ lookup.done
   /\ ~LookupFails(lookup.resp)
   /\ SoaAt(lookup.resp.Authority) # {}) =>
     lookup.result.authority = FirstSoaZone(lookup.resp.Authority)

\* C15, amended: the first Authority-section SOA record gives the authority
\* when the Answer section holds no NS record; with an NS record in the
\* Answer section the authority is absent, whatever the Authority section.
C15_SoaUnlessAnswerNS ==
  (lookup.done /\ ~LookupFails(lookup.resp)) =>
     IF NoAnswerNS(lookup.resp) /\ SoaAt(lookup.resp.Authority) # {}
     THEN lookup.result.authority = FirstSoaZone(lookup.resp.Authority)
     ELSE lookup.result.authority = Null

\* C15: a reply with two SOA records of different zones in its Authority
\* section and no NS record in its Answer section was parsed
C15_Witness ==
  /\ lookup.done
  /\ ~LookupFails(lookup.resp)
  /\ NoAnswerNS(lookup.resp)
  /\ \E i, j \in SoaAt(lookup.resp.Authority) :
       lookup.resp.Authority[i].name # lookup.resp.Authority[j].name
  /\ lookup.result.authority = FirstSoaZone(lookup.resp.Authority)

\* the positions of the NS records of a section
NsAt(records) == {i \in 1..Len(records) : records[i].type = TypeNS}

\* the k-th position of a set of positions
Nth(S, k) == CHOOSE i \in S : Cardinality({j \in S : j < i}) = k - 1

\* the lowercased data of the NS records of a section, in their order
LowerNsData(records) ==
  [k \in 1..Cardinality(NsAt(records)) |->
     [n \in 1..Len(records[Nth(NsAt(records), k)].data) |->
        LowerLabel(records[Nth(NsAt(records), k)].data[n])]]

\* C16: with Status 0 and an NS record in the Answer section the result is
\* the lowercased data of exactly the Answer-section NS records with no
\* authority, whatever the Authority section holds; otherwise servers and
\* authority come from the Authority section.
C16_AnswerFirst ==
  (lookup.done /\ ~LookupFails(lookup.resp)) =>
     IF ~NoAnswerNS(lookup.resp)
     THEN /\ lookup.result.servers = LowerNsData(lookup.resp.Answer)
          /\ lookup.result.authority = Null
     ELSE /\ lookup.result.servers = LowerNsData(lookup.resp.Authority)
          /\ lookup.result.authority =
               IF SoaAt(lookup.resp.Authority) # {}
               THEN FirstSoaZone(lookup.resp.Authority) ELSE Null

\* C16: a reply with an A record and an NS record in its Answer section was
\* parsed to the one NS target
C16_Witness ==
  /\ lookup.done
  /\ lookup.resp.Status = 0
  /\ NsAt(lookup.resp.Answer) # {}
  /\ NsAt(lookup.resp.Answer) # DOMAIN lookup.resp.Answer
  /\ lookup.result = [servers |-> <<NS2>>, authority |-> Null]

\* C17: the step that ends an evaluation of h with verdict v and resolves the
\* request leaves blockingDecisions[h] = v, for v true and v false alike, so
\* whenever a request has been answered from an evaluation blockingDecisions
\* holds a verdict for its hostname.
C17_StoreBeforeRelease ==
  /\ [](\A r \in Reqs :
          req[r].via \in EvaluatedVia => DomainOf(r) \in DOMAIN blockingDecisions)
  /\ [][\A r \in Reqs :
          (Evaluating(r) /\ req'[r].pc \in {"answered", "done"}) =>
            /\ extractDomain(req'[r].url) \in DOMAIN blockingDecisions'
            /\ blockingDecisions'[extractDomain(req'[r].url)] = req'[r].cancel
       ]_vars

\* C17: an evaluation ended with the verdict allow, which is stored
C17_Witness ==
  \E r \in Reqs :
    /\ req[r].via \in EvaluatedVia
    /\ ~req[r].cancel
    /\ DomainOf(r) \in DOMAIN blockingDecisions
    /\ ~blockingDecisions[DomainOf(r)]

\* the callback of the startup chrome.tabs.query has run
StartupQueryProcessed ==
  \A i \in 1..Len(tabQueries) : tabQueries[i].kind # "init"

\* C19: once the startup query has been processed, activeRootDomains holds
\* the root domain of the last reported URL of every open tab.
C19_ActiveRootsCoverTabs ==
  StartupQueryProcessed =>
    \A t \in DOMAIN tabs :
      Truthy(extractDomain(tabs[t])) =>
        getRootDomain(extractDomain(tabs[t])) \in activeRootDomains

\* C20: dnsCache is written only by the last branch of shouldBlockDomain:
\* every entry has shouldBlock = true and a non-root hostname as its key,
\* and a step that ends an evaluation in another branch leaves dnsCache as
\* it was.
C20_OnlyLastBranchCaches ==
  /\ [](\A h \in DOMAIN dnsCache :
          dnsCache[h].shouldBlock /\ h # getRootDomain(h))
  /\ [][(\A r \in Reqs :
           (Evaluating(r) /\ req'[r].pc \in {"answered", "done"}) =>
             IF req'[r].via = "noRecords"
             THEN /\ extractDomain(req'[r].url) \in DOMAIN dnsCache'
                  /\ dnsCache'[extractDomain(req'[r].url)].timestamp = now
             ELSE dnsCache' = dnsCache)
        /\ (dnsCache' # dnsCache =>
              \E r \in Reqs : Evaluating(r) /\ req'[r].via = "noRecords")
       ]_vars

\* C20: two evaluations of one hostname ended, one in the last branch and
\* one in the nameserver comparison with the verdict allow
C20_Witness ==
  /\ \E r \in Reqs :
       /\ req[r].via = "noRecords"
       /\ DomainOf(r) \in DOMAIN dnsCache
       /\ dnsCache[DomainOf(r)].shouldBlock
  /\ \E r \in Reqs : req[r].via = "compare" /\ ~req[r].cancel

====
